---- MODULE Spec2Model ----
(***************************************************************************)
(* A model of the turn pipeline (src/src/main.rs), of the inventory intent *)
(* systems (src/src/inventory_system.rs) and of the reachability pruning   *)
(* and the spawn regions of the map builders                               *)
(* (src/src/map_builders/common.rs).                                       *)
(*                                                                         *)
(* The entity store (specs::World) is one record, ecs, with one field per  *)
(* component storage or resource.  A system is an operator from a world to *)
(* a world; a Rust panic is recorded in the field panic, and the world is  *)
(* left as it was when the panic happened (the process ends there).        *)
(***************************************************************************)
EXTENDS Integers, Sequences, FiniteSets, TLC

VARIABLES
  ecs,        \* State::ecs, the entity store (World) with its resources
  runstate,   \* the RunState resource
  passes,     \* history: the systems run by the latest tick, in order
  hist,       \* history: the run states of the ticks taken so far (latest last)
  last,       \* history: the operation that produced this state
  pre,        \* history: the entity store before that operation
  tiles,      \* Map::tiles of the map being built
  start_idx,  \* the start_idx argument of the pruning
  exit_idx,   \* the index the pruning returned
  tiles0,     \* history: Map::tiles before the pruning
  noise,      \* the label the noise field gives each tile
  noise_areas \* the regions generate_voronoi_spawn_regions returned

vars == <<ecs, runstate, passes, hist, last, pre, tiles, start_idx, exit_idx, tiles0, noise, noise_areas>>

(***************************************************************************)
(* Bounds of the model.                                                    *)
(***************************************************************************)
NumItems == 2      \* item entities in the world
WorldHeight == 3   \* rows of the world map the inventory systems see
GridSide == 3      \* side of the tile grid handed to the pruning
MaxFloor == 5      \* Floor tiles of that grid before the pruning, at most
MaxRegionFloor == 3 \* Floor tiles of the map handed to the spawn regions, at most

WorldWidth == WorldHeight + 2

(***************************************************************************)
(* Entities.  Entity 1 is the player (the Entity resource), entity 2 is a  *)
(* monster, the others are items.                                          *)
(***************************************************************************)
Player == 1
Monster == 2
Mobs == {Player, Monster}
Items == 3..(2 + NumItems)
Entities == Mobs \cup Items

NoEntity == 0
NoTile == 0 - 1
NoAmount == 0 - 1
NoSlot == "none"
NoPanic == "none"
Slots == {"Melee", "Shield"}

NoEquipped == [owner |-> NoEntity, slot |-> NoSlot]
NoPickup == [item |-> NoEntity, collected_by |-> NoEntity]
NoUse == [item |-> NoEntity, target |-> NoTile]
NoStats == [max_hp |-> 0, hp |-> 0, defense |-> 0, power |-> 0]

WorldTiles == 0..(WorldWidth * WorldHeight - 1)

\* Map::xy_idx and its inverse
xy_idx(x, y) == y * WorldWidth + x
TileX(t) == t % WorldWidth
TileY(t) == t \div WorldWidth

Min(a, b) == IF a < b THEN a ELSE b
Max(a, b) == IF a > b THEN a ELSE b

\* The elements of a set of numbers in ascending order: the order in which
\* a join visits the entities of a storage.
RECURSIVE JoinOrder(_)
JoinOrder(S) ==
  IF S = {} THEN <<>>
  ELSE LET m == CHOOSE x \in S : \A y \in S : x <= y
       IN <<m>> \o JoinOrder(S \ {m})

Panic(w, msg) == [w EXCEPT !.panic = msg]
Panicked(w) == w.panic # NoPanic
Log(w, entry) == [w EXCEPT !.gamelog = Append(@, entry)]

\* history: the holders whose intent the running system has taken up, in order
Resolve(w, holder) == [w EXCEPT !.resolved = Append(@, holder)]
Unresolved(w) == [w EXCEPT !.resolved = <<>>]

(***************************************************************************)
(* ItemCollectionSystem                                                    *)
(***************************************************************************)
CollectOneKeepsPosition(w, pickup) ==
  [w EXCEPT !.in_backpack[pickup.item] = pickup.collected_by]

\* the body of the loop over wants_pickup, for one pickup
CollectOne(w, pickup) ==
  LET w1 == [w EXCEPT !.position[pickup.item] = NoTile]
  IN IF pickup.item \notin w.alive
       THEN Panic(w1, "Unable to insert backpack entry")
     ELSE
       LET w2 == [w1 EXCEPT !.in_backpack[pickup.item] = pickup.collected_by]
       IN IF pickup.collected_by = Player
            THEN IF pickup.item \in w2.names
                   THEN Log(w2, <<"You pick up the", pickup.item>>)
                   ELSE Panic(w2, "Failed to get item name")
            ELSE w2

RECURSIVE CollectLoop(_, _, _)
CollectLoop(w, wants, holders) ==
  IF holders = <<>> \/ Panicked(w) THEN w
  ELSE CollectLoop(CollectOne(Resolve(w, Head(holders)), wants[Head(holders)]),
                   wants, Tail(holders))

ClearPickupsClearsBackpack(w) == [w EXCEPT !.in_backpack = [e \in Entities |-> NoEntity]]

ClearPickupsSkipped(w) == w

ClearPickups(w) == [w EXCEPT !.wants_pickup = [e \in Entities |-> NoPickup]]

ItemCollectionSystem(w) ==
  LET holders == JoinOrder({e \in w.alive : w.wants_pickup[e] # NoPickup})
      w1 == CollectLoop(Unresolved(w), w.wants_pickup, holders)
  IN IF Panicked(w1) THEN w1 ELSE ClearPickups(w1)

(***************************************************************************)
(* ItemUseSystem                                                           *)
(***************************************************************************)
\* rltk::field_of_view(target, radius, map) on a map without obstructions:
\* the tiles within the radius of the target
field_of_view(target, radius) ==
  {t \in WorldTiles :
     (TileX(t) - TileX(target)) * (TileX(t) - TileX(target))
       + (TileY(t) - TileY(target)) * (TileY(t) - TileY(target))
     <= radius * radius}

\* the predicate of blast_tiles.retain
InteriorTile(t) ==
  /\ TileX(t) > 0
  /\ TileX(t) < WorldWidth - 1
  /\ TileY(t) > 0
  /\ TileY(t) < WorldHeight - 1

\* the occupants of the tiles ts (a sequence), tile after tile
RECURSIVE Occupants(_, _)
Occupants(w, ts) ==
  IF ts = <<>> THEN <<>>
  ELSE w.tile_content[Head(ts)] \o Occupants(w, Tail(ts))

Reverse(s) == [i \in 1..Len(s) |-> s[Len(s) + 1 - i]]

\* the target set of one use (the match on wants_use.target); fovOrder is the
\* order in which the field of view lists its tiles (a Vec made from a set)
Targets(w, entity, wants_use, fovOrder) ==
  IF wants_use.target = NoTile THEN <<Player>>
  ELSE IF w.aoe[wants_use.item] = NoAmount THEN w.tile_content[wants_use.target]
  ELSE LET blast == {t \in field_of_view(wants_use.target, w.aoe[wants_use.item]) :
                        InteriorTile(t)}
           asc == JoinOrder(blast)
       IN Occupants(w, IF fovOrder = "asc" THEN asc ELSE Reverse(asc))

RECURSIVE LogUnequips(_, _)
LogUnequips(w, es) ==
  IF es = <<>> THEN w
  ELSE LogUnequips(Log(w, <<"You unequip", Head(es)>>), Tail(es))

ToUnequipNone(w, target, slot) == {}

\* the items the join over (entities, equipped, names) puts in to_unequip
ToUnequip(w, target, slot) ==
  {e \in w.alive :
     /\ w.equipped[e] # NoEquipped
     /\ e \in w.names
     /\ w.equipped[e].owner = target
     /\ w.equipped[e].slot = slot}

\* "If it is equippable, then we want to equip it"
EquipFacet(w, item, targets) ==
  LET slot == w.equippable[item] IN
  IF slot = NoSlot THEN w
  ELSE IF targets = <<>> THEN Panic(w, "index out of bounds: targets[0]")
  ELSE
    LET target == targets[1]
        to_unequip == ToUnequip(w, target, slot)
        w1 == IF target = Player THEN LogUnequips(w, JoinOrder(to_unequip)) ELSE w
        w2 == [w1 EXCEPT
                 !.equipped = [e \in Entities |->
                                 IF e \in to_unequip THEN NoEquipped ELSE @[e]],
                 !.in_backpack = [e \in Entities |->
                                    IF e \in to_unequip THEN target ELSE @[e]]]
    IN IF item \notin w2.alive
         THEN Panic(w2, "Unable to insert equipped component")
       ELSE
         LET w3 == [w2 EXCEPT !.equipped[item] = [owner |-> target, slot |-> slot],
                              !.in_backpack[item] = NoEntity]
         IN IF target = Player
              THEN IF item \in w3.names
                     THEN Log(w3, <<"You equip", item>>)
                     ELSE Panic(w3, "unwrap on None: item name")
              ELSE w3

\* SufferDamage::new_damage
new_damage(w, victim, amount) ==
  IF victim \notin w.alive THEN Panic(w, "Unable to insert damage")
  ELSE [w EXCEPT !.suffer_damage[victim] = Append(@, amount)]

DamageOneAppliesNow(w, entity, item, mob) ==
  IF w.stats[mob] = NoStats THEN w
  ELSE [w EXCEPT !.stats[mob].hp = @ - w.damage[item]]

DamageOne(w, entity, item, mob) ==
  LET w1 == new_damage(w, mob, w.damage[item])
  IN IF Panicked(w1) \/ entity # Player THEN w1
     ELSE IF mob \in w1.names /\ item \in w1.names
       THEN Log(w1, <<"You use on, inflicting", item, mob, w.damage[item]>>)
       ELSE Panic(w1, "unwrap on None: name")

RECURSIVE DamageLoop(_, _, _, _)
DamageLoop(w, entity, item, targets) ==
  IF targets = <<>> \/ Panicked(w) THEN w
  ELSE DamageLoop(DamageOne(w, entity, item, Head(targets)), entity, item, Tail(targets))

\* "Damaging Item"
DamageFacet(w, entity, item, targets) ==
  IF w.damage[item] = NoAmount THEN w ELSE DamageLoop(w, entity, item, targets)

HealedHpUncapped(stats, heal_amount) == stats.hp + heal_amount

\* stats.hp = i32::min(stats.max_hp, stats.hp + healer.heal_amount)
HealedHp(stats, heal_amount) == Min(stats.max_hp, stats.hp + heal_amount)

HealOne(w, entity, item, target) ==
  IF target \notin w.alive \/ w.stats[target] = NoStats THEN w
  ELSE
    LET stats == w.stats[target]
        heal_amount == w.healing[item]
        amount == IF stats.hp + heal_amount > stats.max_hp
                    THEN stats.max_hp - stats.hp
                    ELSE heal_amount
        w1 == [w EXCEPT !.stats[target].hp = HealedHp(stats, heal_amount)]
    IN IF entity # Player THEN w1
       ELSE IF item \in w1.names
         THEN Log(w1, <<"You drink the, healing", item, amount>>)
         ELSE Panic(w1, "unwrap on None: item name")

RECURSIVE HealLoop(_, _, _, _)
HealLoop(w, entity, item, targets) ==
  IF targets = <<>> \/ Panicked(w) THEN w
  ELSE HealLoop(HealOne(w, entity, item, Head(targets)), entity, item, Tail(targets))

\* "Healing Item"
HealFacet(w, entity, item, targets) ==
  IF w.healing[item] = NoAmount THEN w ELSE HealLoop(w, entity, item, targets)

ConfuseOne(w, entity, item, turns, mob) ==
  IF mob \notin w.alive THEN Panic(w, "Unable to insert status")
  ELSE
    LET w1 == [w EXCEPT !.confusion[mob] = turns]
    IN IF entity # Player THEN w1
       ELSE IF mob \in w1.names /\ item \in w1.names
         THEN Log(w1, <<"You use on, confusing them", item, mob>>)
         ELSE Panic(w1, "unwrap on None: name")

RECURSIVE ConfuseLoop(_, _, _, _, _)
ConfuseLoop(w, entity, item, turns, targets) ==
  IF targets = <<>> \/ Panicked(w) THEN w
  ELSE ConfuseLoop(ConfuseOne(w, entity, item, turns, Head(targets)),
                   entity, item, turns, Tail(targets))

\* "Confusion Item"
ConfuseFacet(w, entity, item, targets) ==
  IF w.confusion[item] = NoAmount THEN w
  ELSE ConfuseLoop(w, entity, item, w.confusion[item], targets)

\* entities.delete(wants_use.item) for a consumable
ConsumeFacet(w, item) ==
  IF item \notin w.consumable THEN w
  ELSE IF item \notin w.alive THEN Panic(w, "Delete failed")
  ELSE [w EXCEPT !.killed = @ \cup {item}]

UseOneHealsFirst(w, entity, wants_use, fovOrder) ==
  LET item == wants_use.item
      targets == Targets(w, entity, wants_use, fovOrder)
      w1 == EquipFacet(w, item, targets)
      w2 == IF Panicked(w1) THEN w1 ELSE HealFacet(w1, entity, item, targets)
      w3 == IF Panicked(w2) THEN w2 ELSE DamageFacet(w2, entity, item, targets)
      w4 == IF Panicked(w3) THEN w3 ELSE ConfuseFacet(w3, entity, item, targets)
  IN IF Panicked(w4) THEN w4 ELSE ConsumeFacet(w4, item)

\* the body of the loop over (entities, wants_use), for one use
UseOne(w, entity, wants_use, fovOrder) ==
  LET item == wants_use.item
      targets == Targets(w, entity, wants_use, fovOrder)
      w1 == EquipFacet(w, item, targets)
      w2 == IF Panicked(w1) THEN w1 ELSE DamageFacet(w1, entity, item, targets)
      w3 == IF Panicked(w2) THEN w2 ELSE HealFacet(w2, entity, item, targets)
      w4 == IF Panicked(w3) THEN w3 ELSE ConfuseFacet(w3, entity, item, targets)
  IN IF Panicked(w4) THEN w4 ELSE ConsumeFacet(w4, item)

RECURSIVE UseLoop(_, _, _, _)
UseLoop(w, wants, holders, fovOrder) ==
  IF holders = <<>> \/ Panicked(w) THEN w
  ELSE UseLoop(UseOne(Resolve(w, Head(holders)), Head(holders), wants[Head(holders)],
                      fovOrder),
               wants, Tail(holders), fovOrder)

ClearUses(w) == [w EXCEPT !.wants_use = [e \in Entities |-> NoUse]]

ItemUseSystem(w, fovOrder) ==
  LET holders == JoinOrder({e \in w.alive : w.wants_use[e] # NoUse})
      w1 == UseLoop(Unresolved(w), w.wants_use, holders, fovOrder)
  IN IF Panicked(w1) THEN w1 ELSE ClearUses(w1)

(***************************************************************************)
(* ItemDropSystem                                                          *)
(***************************************************************************)
DropOneAtPlayer(w, entity, item) ==
  [w EXCEPT !.position[item] = w.position[Player], !.in_backpack[item] = NoEntity]

\* the body of the loop over (entities, wants_drop), for one drop
DropOne(w, entity, item) ==
  IF w.position[entity] = NoTile THEN Panic(w, "unwrap on None: dropper position")
  ELSE IF item \notin w.alive THEN Panic(w, "Unable to insert position")
  ELSE
    LET w1 == [w EXCEPT !.position[item] = w.position[entity],
                        !.in_backpack[item] = NoEntity]
    IN IF entity # Player THEN w1
       ELSE IF item \in w1.names
         THEN Log(w1, <<"You drop the", item>>)
         ELSE Panic(w1, "unwrap on None: item name")

RECURSIVE DropLoop(_, _, _)
DropLoop(w, wants, holders) ==
  IF holders = <<>> \/ Panicked(w) THEN w
  ELSE DropLoop(DropOne(Resolve(w, Head(holders)), Head(holders), wants[Head(holders)]),
                wants, Tail(holders))


ClearDrops(w) == [w EXCEPT !.wants_drop = [e \in Entities |-> NoEntity]]

ItemDropSystem(w) ==
  LET holders == JoinOrder({e \in w.alive : w.wants_drop[e] # NoEntity})
      w1 == DropLoop(Unresolved(w), w.wants_drop, holders)
  IN IF Panicked(w1) THEN w1 ELSE ClearDrops(w1)

(***************************************************************************)
(* World::maintain: the entities deleted since the last maintain leave the *)
(* world with all their components.                                        *)
(***************************************************************************)
maintain(w) ==
  LET dead == w.killed
      Keep(f, none) == [e \in Entities |-> IF e \in dead THEN none ELSE f[e]]
  IN [w EXCEPT
        !.alive = @ \ dead,
        !.killed = {},
        !.names = @ \ dead,
        !.consumable = @ \ dead,
        !.position = Keep(@, NoTile),
        !.in_backpack = Keep(@, NoEntity),
        !.equipped = Keep(@, NoEquipped),
        !.equippable = Keep(@, NoSlot),
        !.healing = Keep(@, NoAmount),
        !.damage = Keep(@, NoAmount),
        !.aoe = Keep(@, NoAmount),
        !.confusion = Keep(@, NoAmount),
        !.stats = Keep(@, NoStats),
        !.suffer_damage = Keep(@, <<>>),
        !.wants_pickup = Keep(@, NoPickup),
        !.wants_use = Keep(@, NoUse),
        !.wants_drop = Keep(@, NoEntity),
        !.wants_melee = Keep(@, NoEntity)]

\* MapIndexingSystem: the occupancy list of every tile is rebuilt from the
\* positions
MapIndexingSystem(w) ==
  [w EXCEPT !.tile_content =
     [t \in WorldTiles |-> JoinOrder({e \in w.alive : w.position[e] = t})]]

(***************************************************************************)
(* Worlds.  The player stands on PlayerTile and the monster on MonsterTile *)
(* of the world map, EmptyTile has no occupant; every entity has a Name.   *)
(* An item is of one kind (its facets) and at one place.                   *)
(***************************************************************************)
PlayerTile == xy_idx(1, 1)
MonsterTile == xy_idx(2, 1)
EmptyTile == xy_idx(WorldWidth - 1, 1)

Kind(slot, heal, dmg, radius, turns, consumed) ==
  [equippable |-> slot, healing |-> heal, damage |-> dmg, aoe |-> radius,
   confusion |-> turns, consumable |-> consumed]

Place(tile, owner, wearer) == [position |-> tile, in_backpack |-> owner, equipped |-> wearer]

\* the places of a well-formed world: on the ground (where the player stands
\* or where the monster stands), in a backpack, or equipped
GroundPlaces == {Place(t, NoEntity, NoEntity) : t \in {PlayerTile, MonsterTile}}
HeldPlaces ==
  {Place(NoTile, o, NoEntity) : o \in Mobs} \cup {Place(NoTile, NoEntity, o) : o \in Mobs}
Places == GroundPlaces \cup HeldPlaces

MobStats(e, hp) ==
  IF e = Player THEN [max_hp |-> 10, hp |-> hp, defense |-> 0, power |-> 2]
  ELSE [max_hp |-> 4, hp |-> 2, defense |-> 0, power |-> 1]

NoIntents == [holder \in Mobs |-> [kind |-> "none", item |-> NoEntity, target |-> NoTile]]

\* the intents one entity may hold before a pipeline run: nothing, a pickup,
\* a use (with or without a target tile) or a drop of one item
Intent(k, i, t) == [kind |-> k, item |-> i, target |-> t]
UntargetedIntents ==
  {Intent("none", NoEntity, NoTile)}
    \cup {Intent(k, i, NoTile) : k \in {"pickup", "use", "drop"}, i \in Items}
TargetedIntents == {Intent("use", i, t) : i \in Items, t \in {MonsterTile, EmptyTile}}
IntentChoices == UntargetedIntents \cup TargetedIntents

MakeWorld(kinds, places, hp, intents) ==
  MapIndexingSystem(
    [alive |-> Entities,
     killed |-> {},
     panic |-> NoPanic,
     names |-> Entities,
     position |-> [e \in Entities |->
                     IF e = Player THEN PlayerTile
                     ELSE IF e = Monster THEN MonsterTile
                     ELSE places[e].position],
     in_backpack |-> [e \in Entities |-> IF e \in Items THEN places[e].in_backpack ELSE NoEntity],
     equipped |-> [e \in Entities |->
                     IF e \in Items /\ places[e].equipped # NoEntity
                       THEN [owner |-> places[e].equipped, slot |-> kinds[e].equippable]
                       ELSE NoEquipped],
     equippable |-> [e \in Entities |-> IF e \in Items THEN kinds[e].equippable ELSE NoSlot],
     consumable |-> {e \in Items : kinds[e].consumable},
     healing |-> [e \in Entities |-> IF e \in Items THEN kinds[e].healing ELSE NoAmount],
     damage |-> [e \in Entities |-> IF e \in Items THEN kinds[e].damage ELSE NoAmount],
     aoe |-> [e \in Entities |-> IF e \in Items THEN kinds[e].aoe ELSE NoAmount],
     confusion |-> [e \in Entities |-> IF e \in Items THEN kinds[e].confusion ELSE NoAmount],
     stats |-> [e \in Entities |-> IF e \in Mobs THEN MobStats(e, hp) ELSE NoStats],
     suffer_damage |-> [e \in Entities |-> <<>>],
     wants_pickup |-> [e \in Entities |->
                         IF e \in Mobs /\ intents[e].kind = "pickup"
                           THEN [item |-> intents[e].item, collected_by |-> e]
                           ELSE NoPickup],
     wants_use |-> [e \in Entities |->
                      IF e \in Mobs /\ intents[e].kind = "use"
                        THEN [item |-> intents[e].item, target |-> intents[e].target]
                        ELSE NoUse],
     wants_drop |-> [e \in Entities |->
                       IF e \in Mobs /\ intents[e].kind = "drop" THEN intents[e].item
                       ELSE NoEntity],
     wants_melee |-> [e \in Entities |-> NoEntity],
     gamelog |-> <<>>,
     resolved |-> <<>>,
     tile_content |-> [t \in WorldTiles |-> <<>>]])

\* at most one location fact per item
LocationExclusive(w) ==
  \A i \in Items :
    Cardinality({f \in {"position", "in_backpack", "equipped"} :
                   \/ f = "position" /\ w.position[i] # NoTile
                   \/ f = "in_backpack" /\ w.in_backpack[i] # NoEntity
                   \/ f = "equipped" /\ w.equipped[i] # NoEquipped}) <= 1

\* at most one item equipped per owner and slot
SlotExclusive(w) ==
  \A o \in Entities, s \in Slots :
    Cardinality({i \in Entities : w.equipped[i] = [owner |-> o, slot |-> s]}) <= 1

\* an item is equipped only in the slot it is equippable to
WellFormed(kinds, places) ==
  \A i \in Items : places[i].equipped # NoEntity => kinds[i].equippable # NoSlot

(***************************************************************************)
(* The inventory systems on their own: from a well-formed world with       *)
(* pending intents, the three systems in any order, each when an intent of *)
(* its kind is pending (with none pending a system changes nothing), and   *)
(* the end of a pipeline run (maintain, then the occupancy index of the    *)
(* next run).                                                              *)
(***************************************************************************)
InvKinds ==
  {Kind(s, NoAmount, NoAmount, NoAmount, NoAmount, FALSE) : s \in Slots}

MapIdle ==
  /\ tiles = <<>>
  /\ start_idx = 0
  /\ exit_idx = 0
  /\ tiles0 = <<>>
  /\ noise = <<>>
  /\ noise_areas = <<>>

TickIdle ==
  /\ runstate = "PreRun"
  /\ passes = <<>>
  /\ hist = <<"none", "none">>

InitInv ==
  /\ \E kinds \in [Items -> InvKinds],
        places \in [Items -> HeldPlaces \cup {Place(PlayerTile, NoEntity, NoEntity)}] :
       /\ WellFormed(kinds, places)
       /\ \A i, j \in Items :
            (/\ i # j
             /\ places[i].equipped # NoEntity
             /\ places[i].equipped = places[j].equipped)
            => kinds[i].equippable # kinds[j].equippable
       /\ \E byPlayer \in IntentChoices, byMonster \in UntargetedIntents :
            ecs = MakeWorld(kinds, places, 10,
                            [h \in Mobs |-> IF h = Player THEN byPlayer ELSE byMonster])
  /\ pre = ecs
  /\ last = "init"
  /\ TickIdle
  /\ MapIdle

Collect ==
  /\ ~Panicked(ecs)
  /\ \E e \in Entities : ecs.wants_pickup[e] # NoPickup
  /\ ecs' = ItemCollectionSystem(ecs)
  /\ pre' = ecs
  /\ last' = "ItemCollectionSystem"
  /\ UNCHANGED <<runstate, passes, hist, tiles, start_idx, exit_idx, tiles0, noise, noise_areas>>

Use ==
  /\ ~Panicked(ecs)
  /\ \E e \in Entities : ecs.wants_use[e] # NoUse
  /\ \E fovOrder \in {"asc", "desc"} : ecs' = ItemUseSystem(ecs, fovOrder)
  /\ pre' = ecs
  /\ last' = "ItemUseSystem"
  /\ UNCHANGED <<runstate, passes, hist, tiles, start_idx, exit_idx, tiles0, noise, noise_areas>>

Drop ==
  /\ ~Panicked(ecs)
  /\ \E e \in Entities : ecs.wants_drop[e] # NoEntity
  /\ ecs' = ItemDropSystem(ecs)
  /\ pre' = ecs
  /\ last' = "ItemDropSystem"
  /\ UNCHANGED <<runstate, passes, hist, tiles, start_idx, exit_idx, tiles0, noise, noise_areas>>

EndRun ==
  /\ ~Panicked(ecs)
  /\ last \notin {"init", "maintain"}
  /\ ecs' = MapIndexingSystem(maintain(ecs))
  /\ pre' = ecs
  /\ last' = "maintain"
  /\ UNCHANGED <<runstate, passes, hist, tiles, start_idx, exit_idx, tiles0, noise, noise_areas>>

NextInv == Collect \/ Use \/ Drop \/ EndRun

SpecInv == InitInv /\ [][NextInv]_vars

(***************************************************************************)
(* Properties of the inventory systems.                                    *)
(***************************************************************************)
UseHolders(w) == {e \in Entities : w.wants_use[e] # NoUse}
PickupHolders(w) == {e \in Entities : w.wants_pickup[e] # NoPickup}
DropHolders(w) == {e \in Entities : w.wants_drop[e] # NoEntity}

\* the latest operation was a use pass with h's use as its only intent
OnlyUse(h) == last = "ItemUseSystem" /\ UseHolders(pre) = {h}

NoDuplicates(s) == \A i, j \in 1..Len(s) : s[i] = s[j] => i = j
Range(s) == {s[i] : i \in 1..Len(s)}

\* C3: every item has at most one of Position, InBackpack and Equipped after
\* any sequence of collection, use and drop passes over arbitrary intents.
C3_ItemLocationExclusive == LocationExclusive(ecs)

C5_IntentsConsumedOnce ==
  /\ last = "ItemCollectionSystem" =>
       /\ NoDuplicates(ecs.resolved)
       /\ Range(ecs.resolved) \subseteq PickupHolders(pre)
       /\ ~Panicked(ecs) =>
            /\ Range(ecs.resolved) = PickupHolders(pre)
            /\ PickupHolders(ecs) = {}
            /\ ecs.wants_use = pre.wants_use
            /\ ecs.wants_drop = pre.wants_drop
  /\ last = "ItemUseSystem" =>
       /\ NoDuplicates(ecs.resolved)
       /\ Range(ecs.resolved) \subseteq UseHolders(pre)
       /\ ~Panicked(ecs) =>
            /\ Range(ecs.resolved) = UseHolders(pre)
            /\ UseHolders(ecs) = {}
            /\ ecs.wants_pickup = pre.wants_pickup
            /\ ecs.wants_drop = pre.wants_drop
  /\ last = "ItemDropSystem" =>
       /\ NoDuplicates(ecs.resolved)
       /\ Range(ecs.resolved) \subseteq DropHolders(pre)
       /\ ~Panicked(ecs) =>
            /\ Range(ecs.resolved) = DropHolders(pre)
            /\ DropHolders(ecs) = {}
            /\ ecs.wants_pickup = pre.wants_pickup
            /\ ecs.wants_use = pre.wants_use

\* a pass that ended after taking up the intents of two holders
C5_Witness ==
  /\ last \in {"ItemCollectionSystem", "ItemUseSystem", "ItemDropSystem"}
  /\ ~Panicked(ecs)
  /\ Len(ecs.resolved) = 2
  /\ PickupHolders(ecs) \cup UseHolders(ecs) \cup DropHolders(ecs) = {}

\* the collectors that asked for item i in w
Collectors(w, i) ==
  {w.wants_pickup[h].collected_by : h \in {e \in PickupHolders(w) : w.wants_pickup[e].item = i}}

\* C14: after a collection pass that ended, an item some pickup named has no
\* Position and is in the backpack of one of the collectors that asked for
\* it; an item no pickup named has the Position and the backpack it had.
C14_CollectionPostState ==
  (last = "ItemCollectionSystem" /\ ~Panicked(ecs))
  =>
  \A i \in Items :
    IF Collectors(pre, i) # {}
      THEN /\ ecs.position[i] = NoTile
           /\ ecs.in_backpack[i] \in Collectors(pre, i)
      ELSE /\ ecs.position[i] = pre.position[i]
           /\ ecs.in_backpack[i] = pre.in_backpack[i]

\* two collectors asked for the same item on the ground, another item was
\* left alone
C14_Witness ==
  /\ last = "ItemCollectionSystem"
  /\ ~Panicked(ecs)
  /\ \E i \in Items :
       /\ Collectors(pre, i) = Mobs
       /\ pre.position[i] # NoTile
       /\ ecs.in_backpack[i] \in Mobs
  /\ \E i \in Items : Collectors(pre, i) = {}

(***************************************************************************)
(* The use system on one use: the first item is of any kind (any           *)
(* combination of facets), lies in the player's backpack or on the         *)
(* monster's tile and is used by the player or by the monster, on no tile, *)
(* on the monster's tile or on the empty tile; the other items are weapons *)
(* somebody has equipped.                                                  *)
(***************************************************************************)
UsedItem == Monster + 1

UseKinds ==
  {Kind(s, h, d, r, c, k) :
     s \in {NoSlot, "Melee"}, h \in {NoAmount, 3, 999}, d \in {NoAmount, 4},
     r \in {NoAmount, 1}, c \in {NoAmount, 2}, k \in BOOLEAN}

Potion == Kind(NoSlot, 999, NoAmount, NoAmount, NoAmount, TRUE)

KindOf(w, i) ==
  Kind(w.equippable[i], w.healing[i], w.damage[i], w.aoe[i], w.confusion[i],
       i \in w.consumable)

InitUse ==
  /\ \E kind \in UseKinds,
        place \in {Place(NoTile, Player, NoEntity), Place(MonsterTile, NoEntity, NoEntity)},
        wearer \in [Items \ {UsedItem} -> Mobs],
        hp \in {4, 10}, h \in Mobs, t \in {NoTile, MonsterTile, EmptyTile} :
       /\ \A i, j \in DOMAIN wearer : wearer[i] = wearer[j] => i = j
       /\ ecs = MakeWorld(
            [i \in Items |-> IF i = UsedItem THEN kind
                             ELSE Kind("Melee", NoAmount, NoAmount, NoAmount, NoAmount, FALSE)],
            [i \in Items |-> IF i = UsedItem THEN place
                             ELSE Place(NoTile, NoEntity, wearer[i])],
            hp,
            [e \in Mobs |-> IF e = h THEN Intent("use", UsedItem, t)
                            ELSE Intent("none", NoEntity, NoTile)])
  /\ pre = ecs
  /\ last = "init"
  /\ TickIdle
  /\ MapIdle

NextUse == Use \/ EndRun

SpecUse == InitUse /\ [][NextUse]_vars

\* C8: a healing item used on targets leaves every target that has combat
\* stats with hp = min(max_hp, hp + h) and every other entity's stats as they
\* were, so hp <= max_hp is kept; the player at hp = max_hp = 10 drinking a
\* consumable potion of 999 with no target tile ends at hp 10, the potion is
\* deleted (and gone after maintain) and the log has one entry more.
C8_HealingCapped ==
  /\ \A e \in Entities : ecs.stats[e].hp <= ecs.stats[e].max_hp
  /\ \A h \in Entities :
       (/\ OnlyUse(h)
        /\ ~Panicked(ecs)
        /\ pre.healing[pre.wants_use[h].item] # NoAmount)
       =>
       LET heal == pre.healing[pre.wants_use[h].item]
           targets == Range(Targets(pre, h, pre.wants_use[h], "asc"))
       IN \A e \in Entities :
            ecs.stats[e] =
              IF e \in targets /\ pre.stats[e] # NoStats
                THEN [pre.stats[e] EXCEPT !.hp = Min(pre.stats[e].max_hp, pre.stats[e].hp + heal)]
                ELSE pre.stats[e]
  /\ (/\ OnlyUse(Player)
      /\ pre.wants_use[Player].target = NoTile
      /\ KindOf(pre, pre.wants_use[Player].item) = Potion
      /\ pre.stats[Player].hp = 10
      /\ pre.stats[Player].max_hp = 10)
     =>
     /\ ~Panicked(ecs)
     /\ ecs.stats[Player].hp = 10
     /\ pre.wants_use[Player].item \in ecs.killed
     /\ Len(ecs.gamelog) = Len(pre.gamelog) + 1
     /\ ecs.gamelog[Len(ecs.gamelog)] =
          <<"You drink the, healing", pre.wants_use[Player].item, 0>>
  /\ last = "maintain" => ecs.alive = pre.alive \ pre.killed

\* the player at full health has drunk the potion of 999
C8_Witness ==
  /\ OnlyUse(Player)
  /\ pre.wants_use[Player].target = NoTile
  /\ KindOf(pre, pre.wants_use[Player].item) = Potion
  /\ pre.stats[Player].hp = 10
  /\ ecs.stats[Player].hp = 10
  /\ pre.wants_use[Player].item \in ecs.killed

\* a heal below the cap has happened too
C8_WitnessUncapped ==
  \E h \in Entities :
    /\ OnlyUse(h)
    /\ pre.stats[Player].hp = 4
    /\ ecs.stats[Player].hp = 7

\* C9: a use on a target tile that yields no target is no error, whatever
\* facets the item carries: the pass ends, no combat stats, queued damage,
\* status effect or equipment changes, and the item is deleted iff it is
\* consumable.
C9_FireAndMiss ==
  \A h \in Entities :
    (/\ OnlyUse(h)
     /\ pre.wants_use[h].target # NoTile
     /\ Targets(pre, h, pre.wants_use[h], "asc") = <<>>)
    =>
    /\ ~Panicked(ecs)
    /\ ecs.stats = pre.stats
    /\ ecs.suffer_damage = pre.suffer_damage
    /\ ecs.confusion = pre.confusion
    /\ ecs.equipped = pre.equipped
    /\ ecs.in_backpack = pre.in_backpack
    /\ pre.wants_use[h].item \in ecs.killed <=> pre.wants_use[h].item \in pre.consumable

\* C10: a use without a target tile acts on the entity that holds the intent
\* and on no other: an equippable item ends equipped by it, and no other
\* entity is healed, damaged or confused.
C10_UntargetedUseActsOnActor ==
  \A h \in Entities :
    (/\ OnlyUse(h)
     /\ pre.wants_use[h].target = NoTile
     /\ ~Panicked(ecs))
    =>
    LET item == pre.wants_use[h].item
    IN /\ pre.equippable[item] # NoSlot => ecs.equipped[item].owner = h
       /\ \A e \in Entities \ {h} :
            /\ ecs.stats[e] = pre.stats[e]
            /\ ecs.suffer_damage[e] = pre.suffer_damage[e]
            /\ ecs.confusion[e] = pre.confusion[e]
       /\ pre.damage[item] # NoAmount =>
            ecs.suffer_damage[h] = Append(pre.suffer_damage[h], pre.damage[item])
       /\ pre.confusion[item] # NoAmount => ecs.confusion[h] = pre.confusion[item]

\* C11: a use pass in which the player holds no use intent leaves the log as
\* it was, whatever the used items are.
C11_LogOnlyForPlayerUses ==
  (last = "ItemUseSystem" /\ pre.wants_use[Player] = NoUse)
  => ecs.gamelog = pre.gamelog

\* the part of C11 the code keeps: the damage, heal and confusion entries
\* are written for the player's uses only
C11_HoldsWithoutEquip ==
  (/\ last = "ItemUseSystem"
   /\ pre.wants_use[Player] = NoUse
   /\ \A h \in UseHolders(pre) : pre.equippable[pre.wants_use[h].item] = NoSlot)
  => ecs.gamelog = pre.gamelog

\* C13: the use of a damaging item appends the item's damage once to the
\* queued damage of every entity of the target set and to no other; the
\* use pass lowers no hp and removes no entity (a consumed item is only
\* marked for the next maintain).
C13_DamageFacetOnlyQueues ==
  /\ last = "ItemUseSystem" =>
       /\ ecs.alive = pre.alive
       /\ ecs.killed \subseteq pre.killed \cup pre.consumable
       /\ \A e \in Entities : ecs.stats[e].hp >= pre.stats[e].hp
  /\ \A h \in Entities :
       (/\ OnlyUse(h)
        /\ ~Panicked(ecs)
        /\ pre.damage[pre.wants_use[h].item] # NoAmount)
       =>
       LET item == pre.wants_use[h].item
           targets == Targets(pre, h, pre.wants_use[h], "asc")
       IN /\ NoDuplicates(targets)
          /\ \A e \in Entities :
               ecs.suffer_damage[e] =
                 IF e \in Range(targets)
                   THEN Append(pre.suffer_damage[e], pre.damage[item])
                   ELSE pre.suffer_damage[e]

\* a damaging item was used on the monster: the damage is queued, its hp
\* is what it was
C13_Witness ==
  /\ OnlyUse(Player)
  /\ ~Panicked(ecs)
  /\ pre.damage[pre.wants_use[Player].item] # NoAmount
  /\ ecs.suffer_damage[Monster] = <<pre.damage[pre.wants_use[Player].item]>>
  /\ ecs.stats[Monster].hp = pre.stats[Monster].hp

\* the place of a log entry's facet in the order equip, damage, heal,
\* confusion
FacetRank(entry) ==
  CASE entry[1] \in {"You unequip", "You equip"} -> 1
    [] entry[1] = "You use on, inflicting" -> 2
    [] entry[1] = "You drink the, healing" -> 3
    [] entry[1] = "You use on, confusing them" -> 4

\* C17: the entries one use adds to the log are in the order equip, damage,
\* heal, confusion; the item is deleted after its facets took effect, so a
\* use that aborted in a facet has not deleted it.
C17_FacetOrder ==
  \A h \in Entities :
    OnlyUse(h) =>
      LET item == pre.wants_use[h].item
          added == SubSeq(ecs.gamelog, Len(pre.gamelog) + 1, Len(ecs.gamelog))
      IN /\ SubSeq(ecs.gamelog, 1, Len(pre.gamelog)) = pre.gamelog
         /\ \A i, j \in 1..Len(added) :
              i < j => FacetRank(added[i]) <= FacetRank(added[j])
         /\ ecs.alive = pre.alive
         /\ Panicked(ecs) => item \notin ecs.killed
         /\ ~Panicked(ecs) => (item \in ecs.killed <=> item \in pre.consumable)

\* the player used a consumable item that damages and heals on the monster:
\* two entries, and the item is deleted
C17_Witness ==
  /\ OnlyUse(Player)
  /\ ~Panicked(ecs)
  /\ pre.wants_use[Player].item \in ecs.killed
  /\ Len(ecs.gamelog) >= Len(pre.gamelog) + 2
  /\ ecs.gamelog[Len(pre.gamelog) + 1][1] = "You use on, inflicting"
  /\ ecs.gamelog[Len(ecs.gamelog)][1] \in {"You drink the, healing", "You use on, confusing them"}

(***************************************************************************)
(* The turn pipeline (State::run_systems) and the tick of the game state.  *)
(* The systems of the other source files are modelled by their contract:   *)
(* the visibility system touches nothing modelled here, the monster's      *)
(* decision is an input of the tick, melee queues damage, the damage       *)
(* system applies it, the death sweep deletes the entities at hp <= 0.     *)
(***************************************************************************)
VisibilitySystem(w) == w

\* the monster's decision: nothing, or a melee attack on the player
MonsterAI(w, decision) ==
  IF decision = "attack" /\ Monster \in w.alive /\ Player \in w.alive
    THEN [w EXCEPT !.wants_melee[Monster] = Player]
    ELSE w

MeleeOne(w, attacker) ==
  LET defender == w.wants_melee[attacker]
      dmg == Max(0, w.stats[attacker].power - w.stats[defender].defense)
  IN IF defender \notin w.alive \/ dmg = 0 THEN w
     ELSE LET w1 == new_damage(w, defender, dmg)
          IN IF Player \in {attacker, defender}
               THEN Log(w1, <<"hits, for hp", attacker, defender, dmg>>)
               ELSE w1

RECURSIVE MeleeLoop(_, _)
MeleeLoop(w, holders) ==
  IF holders = <<>> THEN w ELSE MeleeLoop(MeleeOne(w, Head(holders)), Tail(holders))

MeleeCombatSystem(w) ==
  [MeleeLoop(w, JoinOrder({e \in w.alive : w.wants_melee[e] # NoEntity}))
     EXCEPT !.wants_melee = [e \in Entities |-> NoEntity]]

RECURSIVE Sum(_)
Sum(s) == IF s = <<>> THEN 0 ELSE Head(s) + Sum(Tail(s))

DamageSystem(w) ==
  [w EXCEPT
     !.stats = [e \in Entities |->
                  IF w.stats[e] # NoStats /\ w.suffer_damage[e] # <<>>
                    THEN [@[e] EXCEPT !.hp = Max(0, @ - Sum(w.suffer_damage[e]))]
                    ELSE @[e]],
     !.suffer_damage = [e \in Entities |-> <<>>]]

\* damage_system::delete_the_dead
delete_the_dead(w) ==
  maintain([w EXCEPT !.killed =
              @ \cup {e \in w.alive : w.stats[e] # NoStats /\ w.stats[e].hp <= 0}])

\* the systems run_systems runs, in the order of its run_now calls, and the
\* maintain that ends it
RunSystemsOrder ==
  <<"VisibilitySystem", "MonsterAI", "MapIndexingSystem", "MeleeCombatSystem",
    "DamageSystem", "ItemCollectionSystem", "maintain">>

RunSystem(name, w, decision) ==
  CASE name = "VisibilitySystem" -> VisibilitySystem(w)
    [] name = "MonsterAI" -> MonsterAI(w, decision)
    [] name = "MapIndexingSystem" -> MapIndexingSystem(w)
    [] name = "MeleeCombatSystem" -> MeleeCombatSystem(w)
    [] name = "DamageSystem" -> DamageSystem(w)
    [] name = "ItemCollectionSystem" -> ItemCollectionSystem(w)
    [] name = "ItemUseSystem" -> ItemUseSystem(w, "asc")
    [] name = "ItemDropSystem" -> ItemDropSystem(w)
    [] name = "maintain" -> maintain(w)

\* the world after the systems named by todo, and the names of those that ran
\* (the world so far is bound, now, so that it is evaluated once)
RECURSIVE RunSystems(_, _, _, _)
RunSystems(w, todo, decision, ran) ==
  CHOOSE r \in
    {IF todo = <<>> \/ Panicked(now) THEN [ecs |-> now, passes |-> ran]
     ELSE RunSystems(RunSystem(Head(todo), now, decision), Tail(todo), decision,
                     Append(ran, Head(todo))) : now \in {w}} : TRUE

run_systems_twice(w, decision) ==
  RunSystems(w, RunSystemsOrder \o RunSystemsOrder, decision, <<>>)

run_systems(w, decision) == RunSystems(w, RunSystemsOrder, decision, <<>>)

\* player_input: the command of the player becomes an intent of the player
\* entity and the turn passes to PlayerTurn; without a command (or with one
\* that cannot be carried out) the state stays AwaitingInput
Commands(w) ==
  {Intent("none", NoEntity, NoTile), Intent("wait", NoEntity, NoTile),
   Intent("melee", Monster, NoTile)}
    \cup {Intent("pickup", i, NoTile) : i \in Items}
    \cup {Intent("drop", i, NoTile) : i \in Items}
    \cup {Intent("use", i, t) : i \in Items, t \in {NoTile, MonsterTile}}

player_input(w, command) ==
  LET stay == [ecs |-> w, runstate |-> "AwaitingInput"]
      turn(w1) == [ecs |-> w1, runstate |-> "PlayerTurn"]
      item == command.item
  IN IF Player \notin w.alive THEN stay
     ELSE CASE command.kind = "none" -> stay
            [] command.kind = "wait" -> turn(w)
            [] command.kind = "melee" ->
                 IF Monster \in w.alive
                   THEN turn([w EXCEPT !.wants_melee[Player] = Monster])
                   ELSE stay
            [] command.kind = "pickup" ->
                 IF item \in w.alive /\ w.position[item] = w.position[Player]
                   THEN turn([w EXCEPT !.wants_pickup[Player] =
                                          [item |-> item, collected_by |-> Player]])
                   ELSE stay
            [] command.kind = "drop" ->
                 IF item \in w.alive /\ w.in_backpack[item] = Player
                   THEN turn([w EXCEPT !.wants_drop[Player] = item])
                   ELSE stay
            [] command.kind = "use" ->
                 IF item \in w.alive /\ w.in_backpack[item] = Player
                   THEN turn([w EXCEPT !.wants_use[Player] =
                                          [item |-> item, target |-> command.target]])
                   ELSE stay

NextRunStateSkipsMonsters(state, fromInput) ==
  CASE state = "PreRun" -> "AwaitingInput"
    [] state = "AwaitingInput" -> fromInput
    [] state = "PlayerTurn" -> "AwaitingInput"
    [] state = "MonsterTurn" -> "AwaitingInput"

\* the match on newrunstate in State::tick
NextRunState(state, fromInput) ==
  CASE state = "PreRun" -> "AwaitingInput"
    [] state = "AwaitingInput" -> fromInput
    [] state = "PlayerTurn" -> "MonsterTurn"
    [] state = "MonsterTurn" -> "AwaitingInput"

\* State::tick, up to the death sweep (what follows it only draws)
tick(w, state, decision, command) ==
  LET input == player_input(w, command)
      Sweep(ran) ==
        IF Panicked(ran.ecs)
          THEN [ecs |-> ran.ecs, runstate |-> state, passes |-> ran.passes]
          ELSE [ecs |-> delete_the_dead(ran.ecs),
                runstate |-> NextRunState(state, input.runstate),
                passes |-> ran.passes \o <<"RunState", "delete_the_dead">>]
  IN CHOOSE r \in
       {Sweep(ran) : ran \in {IF state = "AwaitingInput"
                                THEN [ecs |-> input.ecs, passes |-> <<"player_input">>]
                                ELSE run_systems(w, decision)}} : TRUE

\* the world main() sets up: the potion lies where the player stands, the
\* other items are weapons in the player's backpack
Init ==
  /\ ecs = Log(MakeWorld(
             [i \in Items |-> IF i = UsedItem THEN Potion
                              ELSE Kind("Melee", NoAmount, NoAmount, NoAmount, NoAmount, FALSE)],
             [i \in Items |-> IF i = UsedItem THEN Place(PlayerTile, NoEntity, NoEntity)
                              ELSE Place(NoTile, Player, NoEntity)],
             4, NoIntents),
           <<"Welcome to Rusty Rougelike">>)
  /\ runstate = "PreRun"
  /\ passes = <<>>
  /\ hist = <<"none", "none">>
  /\ pre = ecs
  /\ last = "init"
  /\ MapIdle

Tick ==
  /\ ~Panicked(ecs)
  /\ \E decision \in {"idle", "attack"}, command \in Commands(ecs) :
       \E r \in {tick(ecs, runstate, decision, command)} :
          /\ ecs' = r.ecs
          /\ runstate' = r.runstate
          /\ passes' = r.passes
  /\ hist' = <<hist[2], runstate>>
  /\ pre' = ecs
  /\ last' = "tick"
  /\ UNCHANGED <<tiles, start_idx, exit_idx, tiles0, noise, noise_areas>>

Next == Tick

Spec == Init /\ [][Next]_vars

\* C1: the tick taken in PreRun leads to AwaitingInput, in PlayerTurn to
\* MonsterTurn, in MonsterTurn to AwaitingInput; the input is asked only in
\* AwaitingInput (and answers AwaitingInput or PlayerTurn); so a PlayerTurn
\* tick is followed by one MonsterTurn tick and then AwaitingInput, and
\* MonsterTurn is entered from PlayerTurn only.
C1_RunStateCycle ==
  last = "tick" =>
    /\ hist[2] = "PreRun" => runstate = "AwaitingInput"
    /\ hist[2] = "PlayerTurn" => runstate = "MonsterTurn"
    /\ hist[2] = "MonsterTurn" => runstate = "AwaitingInput"
    /\ hist[2] = "AwaitingInput" => runstate \in {"AwaitingInput", "PlayerTurn"}
    /\ hist[2] # "AwaitingInput" => "player_input" \notin Range(passes)
    /\ runstate = "MonsterTurn" => hist[2] = "PlayerTurn"
    /\ hist[1] = "PlayerTurn" => hist[2] = "MonsterTurn" /\ runstate = "AwaitingInput"
    /\ hist[2] = "MonsterTurn" => hist[1] = "PlayerTurn"

\* a PlayerTurn tick, the MonsterTurn tick after it, and AwaitingInput again
C1_Witness ==
  /\ last = "tick"
  /\ hist = <<"PlayerTurn", "MonsterTurn">>
  /\ runstate = "AwaitingInput"

\* C2: every pipeline run executes visibility, hostile AI, occupancy
\* indexing, melee, damage, item pickup, item use and item drop, in this
\* order, and the death sweep comes after all eight.
C2_EightPassesInOrder ==
  (last = "tick" /\ hist[2] \in {"PreRun", "PlayerTurn", "MonsterTurn"})
  =>
  /\ SubSeq(passes, 1, 8) =
       <<"VisibilitySystem", "MonsterAI", "MapIndexingSystem", "MeleeCombatSystem",
         "DamageSystem", "ItemCollectionSystem", "ItemUseSystem", "ItemDropSystem">>
  /\ passes[Len(passes)] = "delete_the_dead"
  /\ \A i \in 1..(Len(passes) - 1) : passes[i] # "delete_the_dead"

\* the number of times name is in the sequence s
Count(s, name) == Cardinality({i \in 1..Len(s) : s[i] = name})

\* C19: a tick in PreRun, PlayerTurn or MonsterTurn runs the pipeline once,
\* a tick in AwaitingInput does not run it; every tick ends with the death
\* sweep, which comes after the pipeline's passes and after the new run
\* state is stored.
C19_PipelineOncePerTick ==
  (last = "tick" /\ ~Panicked(ecs))
  =>
  /\ hist[2] \in {"PreRun", "PlayerTurn", "MonsterTurn"} =>
       /\ \A i \in 1..Len(RunSystemsOrder) : Count(passes, RunSystemsOrder[i]) = 1
       /\ SubSeq(passes, 1, Len(RunSystemsOrder)) = RunSystemsOrder
  /\ hist[2] = "AwaitingInput" =>
       \A i \in 1..Len(RunSystemsOrder) : Count(passes, RunSystemsOrder[i]) = 0
  /\ Count(passes, "delete_the_dead") = 1
  /\ Count(passes, "RunState") = 1
  /\ passes[Len(passes)] = "delete_the_dead"
  /\ passes[Len(passes) - 1] = "RunState"

\* the death sweep of a PlayerTurn tick removed the monster the pipeline of
\* that tick had brought to hp 0
C19_Witness ==
  /\ last = "tick"
  /\ hist[2] = "PlayerTurn"
  /\ Monster \in pre.alive
  /\ Monster \notin ecs.alive
  /\ passes[Len(passes)] = "delete_the_dead"

(***************************************************************************)
(* The reachability pruning of the map builders                            *)
(* (map_builders/common.rs).  Map::tiles is a function from the tile       *)
(* indices, 0 .. width*height-1, to tile types.  The distance field        *)
(* (rltk::DijkstraMap) and the exits of a tile (Map::get_available_exits)  *)
(* are collaborators whose code is outside this source tree; they are      *)
(* modelled from their contract: shortest distance from the start over     *)
(* tiles that are not walls, a step to a side costing 1.0 and a diagonal   *)
(* step 1.45, f32::MAX where no path exists or the path is longer than the *)
(* maximal depth.  Distances are kept in hundredths.                       *)
(***************************************************************************)
MapTiles == 0..(GridSide * GridSide - 1)
MapX(idx) == idx % GridSide
MapY(idx) == idx \div GridSide
Abs(a) == IF a < 0 THEN 0 - a ELSE a

\* stands for f32::MAX: larger than every distance of the model
f32_MAX == 2147483647 - 0

\* the max_depth argument of DijkstraMap::new, 200.0
DijkstraMaxDepth == 200 * 100

Adjacent(a, b) ==
  /\ a # b
  /\ Abs(MapX(a) - MapX(b)) <= 1
  /\ Abs(MapY(a) - MapY(b)) <= 1

StepCost(a, b) == IF MapX(a) = MapX(b) \/ MapY(a) = MapY(b) THEN 100 ELSE 145

\* Map::populate_blocked: the walls block
populate_blocked(t) == [idx \in MapTiles |-> t[idx] = "Wall"]

\* Map::get_available_exits: the neighbours that are not blocked
\* the tiles next to a tile, to a side or diagonally
Neighbours == [a \in MapTiles |-> {b \in MapTiles : Adjacent(a, b)}]

get_available_exits(blocked, idx) ==
  {n \in Neighbours[idx] : ~blocked[n]}

SetMin(S) == CHOOSE m \in S : \A n \in S : m <= n

\* one round of relaxation of the distance field
RelaxOnce(blocked, d) ==
  [idx \in MapTiles |->
     SetMin({d[idx]} \cup
            {d[from] + StepCost(from, idx) :
               from \in {f \in Neighbours[idx] :
                           /\ d[f] # f32_MAX
                           /\ idx \in get_available_exits(blocked, f)
                           /\ d[f] + StepCost(f, idx) <= DijkstraMaxDepth}})]

RECURSIVE Relax(_, _)
Relax(blocked, d) ==
  CHOOSE r \in {IF d1 = d THEN d ELSE Relax(blocked, d1) :
                  d1 \in {RelaxOnce(blocked, d)}} : TRUE

\* rltk::DijkstraMap::new(width, height, [start], map, 200.0).map
DijkstraMap(blocked, start) ==
  CHOOSE r \in
    {Relax(b, [idx \in MapTiles |-> IF idx = start THEN 0 ELSE f32_MAX]) :
       b \in {blocked}} : TRUE

PruneTileKeepsFloor(tile, distance_to_start) == tile

PruneTileWallsStart(tile, distance_to_start) ==
  IF tile = "Floor" /\ (distance_to_start = f32_MAX \/ distance_to_start = 0)
    THEN "Wall" ELSE tile

\* the body of the loop: an unreachable Floor tile becomes a Wall
PruneTile(tile, distance_to_start) ==
  IF tile = "Floor" /\ distance_to_start = f32_MAX THEN "Wall" ELSE tile

\* the loop over the tiles, for the exit: a Floor tile replaces the exit
\* when it is reachable and further from the start than the exit so far
RECURSIVE MostDistant(_, _, _, _, _)
MostDistant(t, dmap, i, exit_tile_idx, exit_tile_distance) ==
  IF i \notin MapTiles THEN exit_tile_idx
  ELSE IF /\ t[i] = "Floor"
          /\ dmap[i] # f32_MAX
          /\ dmap[i] > exit_tile_distance
         THEN MostDistant(t, dmap, i + 1, i, dmap[i])
         ELSE MostDistant(t, dmap, i + 1, exit_tile_idx, exit_tile_distance)

remove_unreachable_areas_get_most_distant(t, start) ==
  CHOOSE r \in
    {[tiles |-> [idx \in MapTiles |-> PruneTile(t[idx], dijkstra_map[idx])],
      exit_tile_idx |-> MostDistant(t, dijkstra_map, 0, 0, 0)] :
       dijkstra_map \in {DijkstraMap(populate_blocked(t), start)}} : TRUE

EcsIdle ==
  /\ ecs = MakeWorld([i \in Items |-> Potion],
                     [i \in Items |-> Place(NoTile, Player, NoEntity)], 10, NoIntents)
  /\ pre = ecs

\* a grid as a builder leaves it before the pruning: Floor carved out of
\* Wall, and the start on a Floor tile
InitMap ==
  /\ \E floor \in SUBSET MapTiles :
       /\ Cardinality(floor) <= MaxFloor
       /\ tiles = [idx \in MapTiles |-> IF idx \in floor THEN "Floor" ELSE "Wall"]
       /\ start_idx \in floor
  /\ exit_idx = 0
  /\ tiles0 = tiles
  /\ noise = <<>>
  /\ noise_areas = <<>>
  /\ last = "init"
  /\ EcsIdle
  /\ TickIdle

Prune ==
  /\ last = "init"
  /\ \E r \in {remove_unreachable_areas_get_most_distant(tiles, start_idx)} :
       /\ tiles' = r.tiles
       /\ exit_idx' = r.exit_tile_idx
  /\ tiles0' = tiles
  /\ last' = "prune"
  /\ UNCHANGED <<ecs, runstate, passes, hist, pre, start_idx, noise, noise_areas>>

NextMap == Prune

SpecMap == InitMap /\ [][NextMap]_vars

\* the tiles a walk from the start over Floor tiles of t arrives at
RECURSIVE FloorWalk(_, _)
FloorWalk(t, seen) ==
  LET more == {n \in UNION {Neighbours[s] : s \in seen} : t[n] = "Floor"}
  IN IF more \subseteq seen THEN seen ELSE FloorWalk(t, seen \cup more)

\* the length of the shortest walk from the start to the tiles of
\* FloorWalk, found by a search that extends the cheapest tile first
RECURSIVE WalkLength(_, _, _)
WalkLength(t, done, frontier) ==
  IF frontier = {} THEN done
  ELSE LET best == CHOOSE p \in frontier : \A q \in frontier : p[2] <= q[2]
           settled == {p[1] : p \in done} \cup {best[1]}
           next == {<<n, best[2] + StepCost(best[1], n)>> :
                      n \in {m \in MapTiles : /\ t[m] = "Floor"
                                              /\ Adjacent(best[1], m)
                                              /\ m \notin settled}}
       IN WalkLength(t, done \cup {best},
                     {p \in frontier \cup next : p[1] \notin settled})

Distances(t, start) == WalkLength(t, {}, {<<start, 0>>})

\* C6: after the pruning every tile that is still Floor is reached from
\* the start tile by a walk over Floor tiles.
C6_RemainingFloorReachable ==
  last = "prune" =>
    \A idx \in MapTiles :
      tiles[idx] = "Floor" => idx \in FloorWalk(tiles, {start_idx})

\* a pruning that walled a pocket off and left Floor besides the start
C6_Witness ==
  /\ last = "prune"
  /\ \E idx \in MapTiles : tiles0[idx] = "Floor" /\ tiles[idx] = "Wall"
  /\ \E idx \in MapTiles : idx # start_idx /\ tiles[idx] = "Floor"

\* C7: the index the pruning returns is a Floor tile reached from the start,
\* and no remaining Floor tile is further from the start; also when the
\* start is the only Floor tile reached.
C7_ExitIsMostDistant ==
  last = "prune" =>
    /\ tiles[exit_idx] = "Floor"
    /\ exit_idx \in FloorWalk(tiles, {start_idx})
    /\ \A p, q \in Distances(tiles, start_idx) :
         p[1] = exit_idx => q[2] <= p[2]

\* the part of C7 the code keeps: when the start is not the only Floor tile
\* reached, the returned tile is the most distant one
C7_HoldsBeyondStart ==
  (last = "prune" /\ FloorWalk(tiles, {start_idx}) # {start_idx}) =>
    /\ tiles[exit_idx] = "Floor"
    /\ \A p, q \in Distances(tiles, start_idx) :
         p[1] = exit_idx => q[2] <= p[2]

(***************************************************************************)
(* The pipeline on its own: run_systems, run once or twice on a world with *)
(* or without a pending pickup, the monster attacking or not.              *)
(***************************************************************************)
InitIdle ==
  /\ \E kinds \in [Items -> InvKinds], places \in [Items -> Places], hp \in {4, 10},
        byPlayer \in {Intent("none", NoEntity, NoTile)}
                       \cup {Intent("pickup", i, NoTile) : i \in Items} :
       /\ WellFormed(kinds, places)
       /\ ecs = MakeWorld(kinds, places, hp,
                          [h \in Mobs |-> IF h = Player THEN byPlayer
                                          ELSE Intent("none", NoEntity, NoTile)])
       /\ SlotExclusive(ecs)
  /\ pre = ecs
  /\ last = "init"
  /\ TickIdle
  /\ MapIdle

RunPipeline ==
  /\ ~Panicked(ecs)
  /\ hist[1] = "none"
  /\ \E decision \in {"idle", "attack"} :
       /\ \E r \in {run_systems(ecs, decision)} :
            /\ ecs' = r.ecs
            /\ passes' = r.passes
       /\ last' = IF decision = "idle" THEN "run_systems, monster idle"
                  ELSE "run_systems, monster attacks"
  /\ hist' = <<hist[2], "run_systems">>
  /\ pre' = ecs
  /\ UNCHANGED <<runstate, tiles, start_idx, exit_idx, tiles0, noise, noise_areas>>

NextIdle == RunPipeline

SpecIdle == InitIdle /\ [][NextIdle]_vars

\* nothing is pending in w: no intent, no queued damage, no deleted entity
IdleWorld(w) ==
  /\ \A e \in Entities :
       /\ w.wants_pickup[e] = NoPickup
       /\ w.wants_use[e] = NoUse
       /\ w.wants_drop[e] = NoEntity
       /\ w.wants_melee[e] = NoEntity
       /\ w.suffer_damage[e] = <<>>
  /\ w.killed = {}

\* C12: the pipeline run on a world where nothing is pending, the monster
\* deciding nothing, changes no combat stats, no Position, InBackpack or
\* Equipped fact, not the live entities and not the log; run again, it
\* leaves the world as the first run left it.
C12_IdleTurnIdempotent ==
  (last = "run_systems, monster idle" /\ IdleWorld(pre))
  =>
  /\ ecs.stats = pre.stats
  /\ ecs.position = pre.position
  /\ ecs.in_backpack = pre.in_backpack
  /\ ecs.equipped = pre.equipped
  /\ ecs.alive = pre.alive
  /\ ecs.gamelog = pre.gamelog
  /\ Unresolved(run_systems(ecs, "idle").ecs) = Unresolved(ecs)

\* a second idle run on a world with items on the ground, carried and worn
C12_Witness ==
  /\ last = "run_systems, monster idle"
  /\ IdleWorld(pre)
  /\ hist = <<"run_systems", "run_systems">>
  /\ \E i \in Items : ecs.position[i] # NoTile
  /\ \E i \in Items : ecs.in_backpack[i] # NoEntity \/ ecs.equipped[i] # NoEquipped

(***************************************************************************)
(* The inventory systems on worlds that lack something: the first item is  *)
(* of any kind, has a Name or none and lies in the player's backpack or    *)
(* where the player stands; the monster has a Position or none.  The       *)
(* player holds any intent, the monster none or a drop.                    *)
(***************************************************************************)
InitBare ==
  /\ \E kind \in UseKinds, named \in BOOLEAN, placed \in BOOLEAN,
        place \in {Place(NoTile, Player, NoEntity), Place(PlayerTile, NoEntity, NoEntity)},
        byPlayer \in IntentChoices,
        byMonster \in {Intent("none", NoEntity, NoTile)}
                        \cup {Intent("drop", i, NoTile) : i \in Items} :
       ecs = MapIndexingSystem(
               [MakeWorld(
                  [i \in Items |-> IF i = UsedItem THEN kind
                                   ELSE Kind("Melee", NoAmount, NoAmount, NoAmount, NoAmount, FALSE)],
                  [i \in Items |-> IF i = UsedItem THEN place
                                   ELSE Place(NoTile, Player, NoEntity)],
                  10,
                  [h \in Mobs |-> IF h = Player THEN byPlayer ELSE byMonster])
                EXCEPT !.names = IF named THEN @ ELSE @ \ {UsedItem},
                       !.position[Monster] = IF placed THEN @ ELSE NoTile])
  /\ pre = ecs
  /\ last = "init"
  /\ TickIdle
  /\ MapIdle

NextBare == Collect \/ Use \/ Drop \/ EndRun

SpecBare == InitBare /\ [][NextBare]_vars

\* the entities that hold a drop of item i in w
Droppers(w, i) == {h \in DropHolders(w) : w.wants_drop[h] = i}

\* C15: after a drop pass that ended, an item some drop named lies where
\* one of its droppers stood when the pass ran and is in no backpack, and
\* every other entity, the droppers too, is where it was; with a drop held
\* by an entity without Position the pass aborts.
C15_DropPostState ==
  last = "ItemDropSystem" =>
    /\ ~Panicked(ecs) =>
         \A e \in Entities :
           IF Droppers(pre, e) # {}
             THEN /\ ecs.position[e] \in {pre.position[h] : h \in Droppers(pre, e)}
                  /\ ecs.position[e] # NoTile
                  /\ ecs.in_backpack[e] = NoEntity
             ELSE ecs.position[e] = pre.position[e]
    /\ (\E h \in DropHolders(pre) : h \in pre.alive /\ pre.position[h] = NoTile)
         => Panicked(ecs)

\* the monster dropped an item where it stood, which is not where the
\* player stands
C15_Witness ==
  /\ last = "ItemDropSystem"
  /\ ~Panicked(ecs)
  /\ \E i \in Items :
       /\ Droppers(pre, i) = {Monster}
       /\ ecs.position[i] = MonsterTile
       /\ pre.in_backpack[i] # NoEntity

\* a drop pass aborted on a dropper without Position
C15_WitnessAbort ==
  /\ last = "ItemDropSystem"
  /\ pre.wants_drop[Monster] # NoEntity
  /\ pre.position[Monster] = NoTile
  /\ ecs.panic = "unwrap on None: dropper position"

(***************************************************************************)
(* The spawn regions (generate_voronoi_spawn_regions).  The map is one of  *)
(* WorldWidth x WorldHeight tiles; noise gives the label of a tile, the    *)
(* value of the cellular noise there, scaled and cast to i32.  The result, *)
(* a HashMap, is a function from the labels met to the lists of indices.   *)
(***************************************************************************)
Labels == {0, 1}

\* the indices the two loops visit, in the order they visit them
VoronoiCells ==
  JoinOrder({xy_idx(x, y) : x \in 1..(WorldWidth - 2), y \in 1..(WorldHeight - 2)})

\* noise_areas.entry(label).or_default().push(idx)
PushArea(areas, label, idx) ==
  IF label \in DOMAIN areas
    THEN [areas EXCEPT ![label] = Append(@, idx)]
    ELSE [l \in DOMAIN areas \cup {label} |->
            IF l = label THEN <<idx>> ELSE areas[l]]

RECURSIVE VoronoiLoop(_, _, _, _)
VoronoiLoop(t, n, cells, areas) ==
  IF cells = <<>> THEN areas
  ELSE VoronoiLoop(t, n, Tail(cells),
                   IF t[Head(cells)] = "Floor"
                     THEN PushArea(areas, n[Head(cells)], Head(cells))
                     ELSE areas)

generate_voronoi_spawn_regions(t, n) == VoronoiLoop(t, n, VoronoiCells, <<>>)

\* a map of Floor and Wall, and a label for each Floor tile
InitRegions ==
  /\ \E floor \in SUBSET WorldTiles :
       /\ Cardinality(floor) <= MaxRegionFloor
       /\ tiles = [t \in WorldTiles |-> IF t \in floor THEN "Floor" ELSE "Wall"]
       /\ noise \in [floor -> Labels]
  /\ noise_areas = <<>>
  /\ start_idx = 0
  /\ exit_idx = 0
  /\ tiles0 = tiles
  /\ last = "init"
  /\ EcsIdle
  /\ TickIdle

Regions ==
  /\ last = "init"
  /\ noise_areas' = generate_voronoi_spawn_regions(tiles, noise)
  /\ last' = "generate_voronoi_spawn_regions"
  /\ UNCHANGED <<ecs, runstate, passes, hist, pre, tiles, start_idx, exit_idx, tiles0, noise>>

NextRegions == Regions

SpecRegions == InitRegions /\ [][NextRegions]_vars

\* the places (label, position in the label's list) that hold index idx
Listed(areas, idx) ==
  {<<l, k>> \in UNION {{l} \X (1..Len(areas[l])) : l \in DOMAIN areas} :
     areas[l][k] = idx}

\* C16: the regions returned are a partition of the floor: every Floor tile
\* is in the list of exactly one label, once, and no Wall tile is in a list.
C16_RegionsPartitionFloor ==
  last = "generate_voronoi_spawn_regions" =>
    \A idx \in WorldTiles :
      Cardinality(Listed(noise_areas, idx)) = IF tiles[idx] = "Floor" THEN 1 ELSE 0

\* the part of C16 the code keeps: the Floor tiles off the edge of the map
\* are listed once, under their label, and nothing else is listed
C16_HoldsOffTheEdge ==
  last = "generate_voronoi_spawn_regions" =>
    \A idx \in WorldTiles :
      Listed(noise_areas, idx) \subseteq {p \in Listed(noise_areas, idx) : p[1] = noise[idx]}
      /\ Cardinality(Listed(noise_areas, idx)) =
           IF tiles[idx] = "Floor" /\ InteriorTile(idx) THEN 1 ELSE 0

\* C18: a pickup, a drop or a use by the player of an item without Name
\* aborts the pass, whatever the item's facets and its targets are.
C18_NamelessItemAborts ==
  /\ (/\ last = "ItemCollectionSystem"
      /\ pre.wants_pickup[Player] # NoPickup
      /\ pre.wants_pickup[Player].item \notin pre.names)
     => Panicked(ecs)
  /\ (/\ last = "ItemDropSystem"
      /\ pre.wants_drop[Player] # NoEntity
      /\ pre.wants_drop[Player] \notin pre.names)
     => Panicked(ecs)
  /\ (/\ last = "ItemUseSystem"
      /\ pre.wants_use[Player] # NoUse
      /\ pre.wants_use[Player].item \notin pre.names)
     => Panicked(ecs)

\* the part of C18 the code keeps: the player's pickup and the player's
\* drop of an item without Name abort, and so does a use that writes an
\* entry to the log
C18_HoldsForPickupAndDrop ==
  /\ (/\ last = "ItemCollectionSystem"
      /\ pre.wants_pickup[Player] # NoPickup
      /\ pre.wants_pickup[Player].item \notin pre.names)
     => Panicked(ecs)
  /\ (/\ last = "ItemDropSystem"
      /\ pre.wants_drop[Player] # NoEntity
      /\ pre.wants_drop[Player] \notin pre.names)
     => Panicked(ecs)
  /\ (/\ last = "ItemUseSystem"
      /\ pre.wants_use[Player] # NoUse
      /\ pre.wants_use[Player].item \notin pre.names
      /\ ~Panicked(ecs))
     => ecs.gamelog = pre.gamelog

\* C20: the pruning changes a tile only from Floor to Wall: a Wall stays a
\* Wall, a Floor tile a walk from the start arrives at stays Floor, and so
\* does the start.
C20_PruningOnlyWallsFloor ==
  last = "prune" =>
    /\ \A idx \in MapTiles :
         /\ tiles0[idx] = "Wall" => tiles[idx] = "Wall"
         /\ tiles[idx] # tiles0[idx] => tiles0[idx] = "Floor" /\ tiles[idx] = "Wall"
         /\ (tiles0[idx] = "Floor" /\ idx \in FloorWalk(tiles0, {start_idx}))
              => tiles[idx] = "Floor"
    /\ tiles0[start_idx] = "Floor" => tiles[start_idx] = "Floor"

\* a pruning of a grid with walls that kept the start and a tile next to it
\* and walled another tile off
C20_Witness ==
  /\ last = "prune"
  /\ tiles[start_idx] = "Floor"
  /\ \E idx \in Neighbours[start_idx] : tiles0[idx] = "Floor" /\ tiles[idx] = "Floor"
  /\ \E idx \in MapTiles : tiles0[idx] = "Wall"
  /\ tiles # tiles0

====
